---- MODULE Spec2Model ----
(***************************************************************************)
(* A model of the post/like HTTP backend in server.js: the five handlers   *)
(* under /api/posts, the Post and Like tables they reach through the       *)
(* Prisma client, and the requests that are between two storage calls.     *)
(*                                                                         *)
(* JavaScript strings are tuples of one-character strings, so that trim()  *)
(* and parseInt() are computed and not assumed.                            *)
(***************************************************************************)
EXTENDS Integers, Sequences, FiniteSets, Bags, TLC

\* ------------------------------------------------------------- bounds
\* Posts ever created (the SERIAL sequence is capped here).
MaxCreates == 2
\* Like/unlike requests that may be between their two storage calls.
MaxInflight == 2
\* The clock's last value; createdAt has millisecond resolution, so two
\* creates may read the same value.
MaxClock == 1

VARIABLES
    posts,      \* Post table: a set of rows
    seq,        \* last value handed out by Post.id's SERIAL sequence
    likes,      \* Like table: a bag of [postId, userId] rows
    now,        \* the database clock (CURRENT_TIMESTAMP)
    onDelete,   \* the delete rule of the Like.postId foreign key
    inflight,   \* like/unlike requests suspended between write and count
    last,       \* the handler step taken last and the status it answered
    issued,     \* history: every Post.id ever assigned
    deleted     \* history: every Post.id whose DELETE was answered 200

vars == <<posts, seq, likes, now, onDelete, inflight, last, issued, deleted>>

\* ------------------------------------------------------ JavaScript values
Undefined == [t |-> "undefined", v |-> <<>>]
NullV == [t |-> "null", v |-> <<>>]
Str(s) == [t |-> "string", v |-> s]
\* A JSON number; its digits are kept as a tuple like a string's characters.
Num(s) == [t |-> "number", v |-> s]

\* !x is false exactly for these.
Truthy(x) ==
    \/ x.t = "string" /\ x.v # <<>>
    \/ x.t = "number" /\ x.v # <<"0">>

\* a || null
OrNull(x) == IF Truthy(x) THEN x ELSE NullV

WhiteSpace == {" ", "\t", "\n"}

RECURSIVE TrimStart(_)
TrimStart(s) ==
    IF s # <<>> /\ Head(s) \in WhiteSpace THEN TrimStart(Tail(s)) ELSE s

RECURSIVE TrimEnd(_)
TrimEnd(s) ==
    IF s # <<>> /\ s[Len(s)] \in WhiteSpace
    THEN TrimEnd(SubSeq(s, 1, Len(s) - 1))
    ELSE s

\* String.prototype.trim
Trim(s) == TrimEnd(TrimStart(s))

Digits == <<"0", "1", "2", "3", "4", "5", "6", "7", "8", "9">>
IsDigit(c) == \E i \in 1..10 : Digits[i] = c
DigitVal(c) == (CHOOSE i \in 1..10 : Digits[i] = c) - 1

NaN == [nan |-> TRUE, n |-> 0]
Parsed(k) == [nan |-> FALSE, n |-> k]

RECURSIVE ParseDigits(_, _)
ParseDigits(s, acc) ==
    IF s # <<>> /\ IsDigit(Head(s))
    THEN ParseDigits(Tail(s), 10 * acc + DigitVal(Head(s)))
    ELSE acc

\* parseInt(s): skips leading white space, reads the leading decimal digits
\* and ignores what follows them; NaN when there is no leading digit.
ParseInt(s) ==
    LET t == TrimStart(s)
    IN  IF t # <<>> /\ IsDigit(Head(t)) THEN Parsed(ParseDigits(t, 0)) ELSE NaN

\* ------------------------------------------------------------- inputs
\* The requests the clients send. The claims below range over more inputs
\* than these.
\* req.body of POST /api/posts
Body(content, imageUrl, userId) ==
    [content |-> content, imageUrl |-> imageUrl, userId |-> userId]
CreateBodies ==
    {Body(Undefined, Undefined, Undefined),
     Body(Str(<<"\t", " ">>), Str(<<"i">>), Str(<<"u">>)),
     Body(Num(<<"5">>), Undefined, Undefined),
     Body(Str(<<" ", "a", " ">>), Undefined, Str(<<>>))}
\* user identifiers sent to like, unlike and list
Users == {<<"u">>, <<"v">>}
UserInputs == {Undefined} \cup {Str(u) : u \in Users}
\* the :id path segment
IdParams == {<<Digits[i + 1]>> : i \in 1..MaxCreates} \cup {<<"x">>}

\* ------------------------------------------------------------ storage
NoError == "none"
\* A failure of the storage call that is none of the constraint errors
\* (P1001: the database cannot be reached).
Faults == {"P1001"}
MayFail == {NoError} \cup Faults

Ids(P) == {p.id : p \in P}

LikeRow(postId, userId) == [postId |-> postId, userId |-> userId]
RowsOf(L, postId) == {r \in BagToSet(L) : r.postId = postId}

RECURSIVE SumCopies(_, _)
SumCopies(L, R) ==
    IF R = {} THEN 0
    ELSE LET r == CHOOSE x \in R : TRUE
         IN  CopiesIn(r, L) + SumCopies(L, R \ {r})

\* The count without its filter: every row of the table.
CountLikesOfAll(L, postId) == SumCopies(L, BagToSet(L))

\* prisma.like.count({ where: { postId } })
CountLikes(L, postId) == SumCopies(L, RowsOf(L, postId))

\* the bag L without the rows in the set R
Without(L, R) ==
    LET keep == BagToSet(L) \ R
    IN  [r \in keep |-> L[r]]

RECURSIVE MaxOf(_)
MaxOf(S) ==
    IF S = {} THEN 0
    ELSE LET x == CHOOSE y \in S : TRUE
             m == MaxOf(S \ {x})
         IN  IF x > m THEN x ELSE m

\* An id taken from the rows that are left instead of from the sequence.
NextPostIdFromRows(P, s) == MaxOf(Ids(P)) + 1

\* prisma.post.create: the row the insert returns. The id comes from the
\* SERIAL sequence, createdAt and updatedAt from the clock.
NextPostId(P, s) == s + 1

PostRow(P, s, data, t) ==
    [id |-> NextPostId(P, s),
     content |-> data.content,
     imageUrl |-> data.imageUrl,
     userId |-> data.userId,
     createdAt |-> t,
     updatedAt |-> t]

\* prisma.post.delete({ where: { id } }): P2025 when no row has the id. The
\* rows of Like that reference the post go with it when the foreign key
\* cascades, and make the delete fail (P2003) when it restricts.
PostDelete(P, L, id, rule) ==
    IF id \notin Ids(P)
    THEN [err |-> "P2025", posts |-> P, likes |-> L]
    ELSE IF RowsOf(L, id) # {} /\ rule = "Restrict"
    THEN [err |-> "P2003", posts |-> P, likes |-> L]
    ELSE [err |-> NoError,
          posts |-> {p \in P : p.id # id},
          likes |-> Without(L, RowsOf(L, id))]

\* The insert with the unique index and without the foreign key.
LikeCreateNoForeignKey(P, L, postId, userId) ==
    LET row == LikeRow(postId, userId)
    IN  IF CopiesIn(row, L) > 0
        THEN [err |-> "P2002", likes |-> L]
        ELSE [err |-> NoError, likes |-> L (+) SetToBag({row})]

\* prisma.like.create({ data: { postId, userId } }): P2002 on the unique
\* (postId, userId) index, P2003 when postId references no post.
LikeCreate(P, L, postId, userId) ==
    LET row == LikeRow(postId, userId)
    IN  IF CopiesIn(row, L) > 0
        THEN [err |-> "P2002", likes |-> L]
        ELSE IF postId \notin Ids(P)
        THEN [err |-> "P2003", likes |-> L]
        ELSE [err |-> NoError, likes |-> L (+) SetToBag({row})]

\* Every like of the post deleted, not the user's own.
LikeDeleteManyOfPost(L, postId, userId) == Without(L, RowsOf(L, postId))

\* prisma.like.deleteMany({ where: { postId, userId } })
LikeDeleteMany(L, postId, userId) == Without(L, {LikeRow(postId, userId)})

\* prisma.post.findMany({ orderBy: { createdAt: "desc" } }): the rows in an
\* order the ORDER BY allows. Rows with equal createdAt may come in any order.
Orderings(P) ==
    {s \in [1..Cardinality(P) -> P] :
        /\ \A i, j \in 1..Cardinality(P) : i # j => s[i] # s[j]
        /\ \A i, j \in 1..Cardinality(P) :
              i < j => s[i].createdAt >= s[j].createdAt}

\* ------------------------------------------------------------ handlers
ErrorBody == [error |-> TRUE]
\* One res.json(...) with the status set before it.
Reply(status, body) ==
    [status |-> status, body |-> body, sent |-> 1, escaped |-> FALSE,
     caught |-> NoError]
\* The same from a catch block that caught an error with this code.
Caught(code, status) ==
    [status |-> status, body |-> ErrorBody, sent |-> 1, escaped |-> FALSE,
     caught |-> code]
\* The handler is suspended at an await: nothing is sent yet.
NoReply ==
    [status |-> 0, body |-> <<>>, sent |-> 0, escaped |-> FALSE,
     caught |-> NoError]

\* The catch blocks.
ListCatch(code) == Caught(code, 500)
CreateCatch(code) == Caught(code, 500)
DeleteCatchNoNotFound(code) == Caught(code, 500)
DeleteCatch(code) ==
    IF code = "P2025" THEN Caught(code, 404) ELSE Caught(code, 500)
LikeCatchNoConflict(code) == Caught(code, 500)
LikeCatch(code) ==
    IF code = "P2002" THEN Caught(code, 400) ELSE Caught(code, 500)
\* A catch block that sends nothing and throws what it caught.
UnlikeCatchRethrow(code) ==
    [status |-> 0, body |-> ErrorBody, sent |-> 0, escaped |-> TRUE,
     caught |-> code]
UnlikeCatch(code) == Caught(code, 500)

\* isLiked taken from the count, not from the user's own like.
FormatPostLikedByAnyone(post, L, userId) ==
    [id |-> post.id,
     content |-> post.content,
     imageUrl |-> post.imageUrl,
     userId |-> post.userId,
     createdAt |-> post.createdAt,
     updatedAt |-> post.updatedAt,
     likeCount |-> CountLikes(L, post.id),
     isLiked |-> IF Truthy(userId) THEN CountLikes(L, post.id) > 0 ELSE FALSE]

\* posts.map((post) => ({ ..., likeCount, isLiked }))
FormatPost(post, L, userId) ==
    [id |-> post.id,
     content |-> post.content,
     imageUrl |-> post.imageUrl,
     userId |-> post.userId,
     createdAt |-> post.createdAt,
     updatedAt |-> post.updatedAt,
     likeCount |-> CountLikes(L, post.id),
     isLiked |-> IF Truthy(userId)
                 THEN CopiesIn(LikeRow(post.id, userId.v), L) > 0
                 ELSE FALSE]

FormatPosts(list, L, userId) ==
    [i \in 1..Len(list) |-> FormatPost(list[i], L, userId)]

\* GET /api/posts?userId=...: the responses the handler may send, one for
\* each order findMany may return the rows in.
ListReplies(P, L, userId, f) ==
    IF f # NoError
    THEN {ListCatch(f)}
    ELSE {Reply(200, FormatPosts(list, L, userId)) : list \in Orderings(P)}

BlankContentNoTrim(content) == ~Truthy(content)
\* if (!content || content.trim() === "")
BlankContent(content) ==
    \/ ~Truthy(content)
    \/ content.t = "string" /\ Trim(content.v) = <<>>

\* POST /api/posts: the response, and the row inserted if one is.
CreateResult(P, s, t, body, f) ==
    LET content == body.content
        data == [content |-> Str(Trim(content.v)),
                 imageUrl |-> OrNull(body.imageUrl),
                 userId |-> OrNull(body.userId)]
        row == PostRow(P, s, data, t)
    IN  IF BlankContent(content)
        THEN [reply |-> Reply(400, ErrorBody), rows |-> {}]
        ELSE IF content.t # "string"
        THEN \* content.trim is not a function
             [reply |-> CreateCatch("TypeError"), rows |-> {}]
        ELSE IF f # NoError
        THEN [reply |-> CreateCatch(f), rows |-> {}]
        ELSE [reply |-> Reply(201, row), rows |-> {row}]

\* DELETE /api/posts/:id: the response and the two tables after it.
DeleteResult(P, L, rule, param, f) ==
    LET id == ParseInt(param)
        r == PostDelete(P, L, id.n, rule)
    IN  IF id.nan
        THEN [reply |-> Reply(400, ErrorBody), posts |-> P, likes |-> L]
        ELSE IF f # NoError
        THEN [reply |-> DeleteCatch(f), posts |-> P, likes |-> L]
        ELSE IF r.err # NoError
        THEN [reply |-> DeleteCatch(r.err), posts |-> P, likes |-> L]
        ELSE [reply |-> Reply(200, [message |-> TRUE]),
              posts |-> r.posts, likes |-> r.likes]

\* A like or unlike request whose write is done and whose count is not. What
\* is left of either handler reads postId only; the unlike's userId is kept
\* as history.
Suspended(op, postId, userId) ==
    [op |-> op, postId |-> postId,
     userId |-> IF op = "unlike" THEN userId ELSE <<>>]

\* POST /api/posts/:id/like up to the await of prisma.like.create: the
\* response if the handler ends here, the Like table after it, and the
\* request left waiting for its count otherwise.
LikeWrite(P, L, param, userId, f) ==
    LET postId == ParseInt(param)
        r == LikeCreate(P, L, postId.n, userId.v)
    IN  IF postId.nan \/ ~Truthy(userId)
        THEN [reply |-> Reply(400, ErrorBody), likes |-> L, waiting |-> {}]
        ELSE IF f # NoError
        THEN [reply |-> LikeCatch(f), likes |-> L, waiting |-> {}]
        ELSE IF r.err # NoError
        THEN [reply |-> LikeCatch(r.err), likes |-> L, waiting |-> {}]
        ELSE [reply |-> NoReply, likes |-> r.likes,
              waiting |-> {Suspended("like", postId.n, userId.v)}]

\* ... and from prisma.like.count to the response.
LikeReply(L, q, f) ==
    IF f # NoError
    THEN LikeCatch(f)
    ELSE Reply(201, [likeCount |-> CountLikes(L, q.postId), isLiked |-> TRUE])

\* DELETE /api/posts/:id/like up to the await of prisma.like.deleteMany.
UnlikeWrite(L, param, userId, f) ==
    LET postId == ParseInt(param)
    IN  IF postId.nan \/ ~Truthy(userId)
        THEN [reply |-> Reply(400, ErrorBody), likes |-> L, waiting |-> {}]
        ELSE IF f # NoError
        THEN [reply |-> UnlikeCatch(f), likes |-> L, waiting |-> {}]
        ELSE [reply |-> NoReply,
              likes |-> LikeDeleteMany(L, postId.n, userId.v),
              waiting |-> {Suspended("unlike", postId.n, userId.v)}]

\* ... and from prisma.like.count to the response.
UnlikeReply(L, q, f) ==
    IF f # NoError
    THEN UnlikeCatch(f)
    ELSE Reply(200, [likeCount |-> CountLikes(L, q.postId), isLiked |-> FALSE])

\* What is recorded of a step: the handler, the status it answered (0 while
\* the handler is suspended) and the error its catch block caught.
Did(op, reply) ==
    [op |-> op, status |-> reply.status, caught |-> reply.caught]

\* ---------------------------------------------------------------- state
Init ==
    /\ posts = {}
    /\ seq = 0
    /\ likes = EmptyBag
    /\ now = 0
    /\ onDelete \in {"Cascade", "Restrict"}
    /\ inflight = EmptyBag
    /\ last = Did("init", NoReply)
    /\ issued = {}
    /\ deleted = {}

\* Time passes between two requests.
Tick ==
    /\ now < MaxClock
    /\ now' = now + 1
    /\ last' = Did("tick", NoReply)
    /\ UNCHANGED <<posts, seq, likes, onDelete, inflight, issued, deleted>>

ListPosts(userId, f) ==
    /\ \E reply \in ListReplies(posts, likes, userId, f) :
          last' = Did("list", reply)
    /\ UNCHANGED <<posts, seq, likes, now, onDelete, inflight, issued, deleted>>

CreatePost(body, f) ==
    LET r == CreateResult(posts, seq, now, body, f)
    IN  /\ r.rows # {} => seq < MaxCreates
        /\ posts' = posts \cup r.rows
        /\ seq' = seq + Cardinality(r.rows)
        /\ issued' = issued \cup Ids(r.rows)
        /\ last' = Did("create", r.reply)
        /\ UNCHANGED <<likes, now, onDelete, inflight, deleted>>

DeletePost(param, f) ==
    LET r == DeleteResult(posts, likes, onDelete, param, f)
    IN  /\ posts' = r.posts
        /\ likes' = r.likes
        /\ last' = Did("delete", r.reply)
        /\ deleted' = deleted \cup (Ids(posts) \ Ids(r.posts))
        /\ UNCHANGED <<seq, now, onDelete, inflight, issued>>

LikePost(param, userId, f) ==
    LET r == LikeWrite(posts, likes, param, userId, f)
    IN  /\ r.waiting # {} => BagCardinality(inflight) < MaxInflight
        /\ likes' = r.likes
        /\ inflight' = inflight (+) SetToBag(r.waiting)
        /\ last' = Did("like", r.reply)
        /\ UNCHANGED <<posts, seq, now, onDelete, issued, deleted>>

LikeCount(q, f) ==
    /\ q.op = "like"
    /\ BagIn(q, inflight)
    /\ inflight' = inflight (-) SetToBag({q})
    /\ last' = Did("likeCount", LikeReply(likes, q, f))
    /\ UNCHANGED <<posts, seq, likes, now, onDelete, issued, deleted>>

UnlikePost(param, userId, f) ==
    LET r == UnlikeWrite(likes, param, userId, f)
    IN  /\ r.waiting # {} => BagCardinality(inflight) < MaxInflight
        /\ likes' = r.likes
        /\ inflight' = inflight (+) SetToBag(r.waiting)
        /\ last' = Did("unlike", r.reply)
        /\ UNCHANGED <<posts, seq, now, onDelete, issued, deleted>>

UnlikeCount(q, f) ==
    /\ q.op = "unlike"
    /\ BagIn(q, inflight)
    /\ inflight' = inflight (-) SetToBag({q})
    /\ last' = Did("unlikeCount", UnlikeReply(likes, q, f))
    /\ UNCHANGED <<posts, seq, likes, now, onDelete, issued, deleted>>

Next ==
    \/ Tick
    \/ \E u \in UserInputs, f \in MayFail : ListPosts(u, f)
    \/ \E b \in CreateBodies, f \in MayFail : CreatePost(b, f)
    \/ \E p \in IdParams, f \in MayFail : DeletePost(p, f)
    \/ \E p \in IdParams, u \in UserInputs, f \in MayFail : LikePost(p, u, f)
    \/ \E q \in BagToSet(inflight), f \in MayFail : LikeCount(q, f)
    \/ \E p \in IdParams, u \in UserInputs, f \in MayFail : UnlikePost(p, u, f)
    \/ \E q \in BagToSet(inflight), f \in MayFail : UnlikeCount(q, f)

Spec == Init /\ [][Next]_vars

\* ------------------------------------------------------------- claims
\* The inputs the claims range over.
CheckParams == IdParams \cup {<<" ", "1", "x">>, <<"x", "1">>, <<"2", " ">>}
NumericParams == {p \in CheckParams : ~ParseInt(p).nan}
PostIdOf(p) == ParseInt(p).n
CheckUsers == UserInputs \cup {Str(<<>>)}
HasLike(L, postId, userId) == CopiesIn(LikeRow(postId, userId), L) > 0
CheckContents ==
    {Undefined, Num(<<"0">>), Num(<<"5">>), Str(<<>>), Str(<<" ">>),
     Str(<<"\n">>), Str(<<"\t", " ">>), Str(<<"a">>), Str(<<" ", "a">>),
     Str(<<"a", " ", "b", "\n">>), Str(<<" ", "a", " ">>)}
CheckOptionals == {Undefined, Str(<<>>), Str(<<"i">>)}
CheckBodies ==
    CreateBodies \cup {Body(c, o, o) : c \in CheckContents,
                                       o \in CheckOptionals}
\* The rows of Like that reference the post, counted with their copies.
LikeRowsOf(L, postId) ==
    BagCardinality([r \in {x \in BagToSet(L) : x.postId = postId} |-> L[r]])

\* C1: the Like table holds at most one row per (postId, userId); a like
\* for a pair that has a row is answered 400 and leaves the table and the
\* post's count as they were; a like for a pair without a row (on a post
\* that exists) inserts the one row and is answered 201 with isLiked true.
C1_LikeOncePerPair ==
    /\ \A r \in BagToSet(likes) : CopiesIn(r, likes) = 1
    /\ \A p \in NumericParams, u \in Users :
          LET w == LikeWrite(posts, likes, p, Str(u), NoError)
          IN  /\ HasLike(likes, PostIdOf(p), u) =>
                    /\ w.reply.status = 400
                    /\ w.waiting = {}
                    /\ w.likes = likes
                    /\ LikeRowsOf(w.likes, PostIdOf(p))
                          = LikeRowsOf(likes, PostIdOf(p))
              /\ ~HasLike(likes, PostIdOf(p), u) /\ PostIdOf(p) \in Ids(posts) =>
                    /\ w.reply.sent = 0
                    /\ w.waiting # {}
                    /\ CopiesIn(LikeRow(PostIdOf(p), u), w.likes) = 1
                    /\ \A q \in w.waiting :
                          LET a == LikeReply(w.likes, q, NoError)
                          IN  a.status = 201 /\ a.body.isLiked
    /\ \A q \in BagToSet(inflight) :
          q.op = "like" =>
             LET a == LikeReply(likes, q, NoError)
             IN  a.status = 201 /\ a.body.isLiked

\* A like was rejected as a duplicate while another like is at its count.
C1_Witness ==
    /\ last.op = "like" /\ last.status = 400 /\ last.caught = "P2002"
    /\ \E q \in BagToSet(inflight) : q.op = "like"

IsBlankInput(c) ==
    \/ c = Undefined
    \/ c.t = "string" /\ \A i \in 1..Len(c.v) : c.v[i] \in WhiteSpace

C3_BlankRejected ==
    /\ \A b \in CheckBodies, f \in MayFail :
          IsBlankInput(b.content) =>
             LET r == CreateResult(posts, seq, now, b, f)
             IN  r.reply.status = 400 /\ r.rows = {}
    /\ \A x \in posts : x.content.t = "string" /\ Trim(x.content.v) # <<>>

\* A create was answered 400 while the table holds a post.
C3_Witness ==
    /\ last.op = "create" /\ last.status = 400
    /\ posts # {}

\* C4: an unlike with a valid id and userId goes on to its count and is
\* answered 200 with isLiked false, whether or not the pair has a row; with
\* no row the Like table and the post's count stay as they were, and a
\* second unlike changes nothing the first has not.
C4_UnlikeIdempotent ==
    /\ \A p \in NumericParams, u \in Users :
          LET w == UnlikeWrite(likes, p, Str(u), NoError)
              again == UnlikeWrite(w.likes, p, Str(u), NoError)
          IN  /\ w.reply.sent = 0
              /\ w.waiting # {}
              /\ ~HasLike(w.likes, PostIdOf(p), u)
              /\ \A q \in w.waiting :
                    LET a == UnlikeReply(w.likes, q, NoError)
                    IN  a.status = 200 /\ ~a.body.isLiked
              /\ ~HasLike(likes, PostIdOf(p), u) =>
                    /\ w.likes = likes
                    /\ LikeRowsOf(w.likes, PostIdOf(p))
                          = LikeRowsOf(likes, PostIdOf(p))
              /\ again.likes = w.likes
    /\ \A q \in BagToSet(inflight) :
          q.op = "unlike" =>
             LET a == UnlikeReply(likes, q, NoError)
             IN  a.status = 200 /\ ~a.body.isLiked

\* An unlike was answered 200 when no post, and so no like, had ever been
\* stored.
C4_Witness ==
    /\ last.op = "unlikeCount" /\ last.status = 200
    /\ issued = {} /\ likes = EmptyBag

\* C5: every list response is 200 and gives each post a likeCount equal to
\* the number of Like rows that reference it, and isLiked true exactly when
\* a userId was sent and the Like table has a row for (post.id, userId).
C5_LikeMetadata ==
    \A u \in CheckUsers :
       \A a \in ListReplies(posts, likes, u, NoError) :
          /\ a.status = 200
          /\ {a.body[i].id : i \in DOMAIN a.body} = Ids(posts)
          /\ \A i \in DOMAIN a.body :
                /\ a.body[i].likeCount = LikeRowsOf(likes, a.body[i].id)
                /\ a.body[i].isLiked
                      <=> (u # Undefined /\ HasLike(likes, a.body[i].id, u.v))

\* A list was answered while one post is liked by one user only and another
\* post by nobody.
C5_Witness ==
    /\ last.op = "list" /\ last.status = 200
    /\ \E x \in posts : LikeRowsOf(likes, x.id) = 1
    /\ \E x \in posts : LikeRowsOf(likes, x.id) = 0

\* C6 as stated: the list holds every stored post, newest first, and posts
\* with equal createdAt come in one fixed order: the table decides the
\* response, so no two responses to the same request differ.
C6_FixedListOrder ==
    \A u \in CheckUsers :
       /\ \A a \in ListReplies(posts, likes, u, NoError) :
             /\ {a.body[i].id : i \in DOMAIN a.body} = Ids(posts)
             /\ \A i, j \in DOMAIN a.body :
                   i < j => a.body[i].createdAt >= a.body[j].createdAt
       /\ Cardinality(ListReplies(posts, likes, u, NoError)) = 1

\* C7: a create with non-blank text is answered 201 with the row it
\* inserts: exactly one row, its content the input without its leading and
\* trailing white space, imageUrl and userId null when not sent, and an id
\* that no post has had before, deleted posts included.
IsTrimOf(t, s) ==
    /\ \E a \in 0..Len(s) :
          /\ a + Len(t) <= Len(s)
          /\ t = SubSeq(s, a + 1, a + Len(t))
          /\ \A k \in 1..a : s[k] \in WhiteSpace
          /\ \A k \in (a + Len(t) + 1)..Len(s) : s[k] \in WhiteSpace
    /\ t # <<>> => t[1] \notin WhiteSpace /\ t[Len(t)] \notin WhiteSpace

C7_CreateInsertsFreshRow ==
    /\ \A b \in CheckBodies :
          b.content.t = "string" /\ ~IsBlankInput(b.content) =>
             LET r == CreateResult(posts, seq, now, b, NoError)
             IN  /\ r.reply.status = 201
                 /\ Cardinality(r.rows) = 1
                 /\ \A row \in r.rows :
                       /\ r.reply.body = row
                       /\ row.content.t = "string"
                       /\ IsTrimOf(row.content.v, b.content.v)
                       /\ b.imageUrl = Undefined => row.imageUrl = NullV
                       /\ b.userId = Undefined => row.userId = NullV
                       /\ row.id \notin issued
                       /\ row.id \notin Ids(posts)
    /\ Ids(posts) \subseteq issued
    /\ deleted \subseteq issued
    /\ deleted \cap Ids(posts) = {}

\* A post was created after another had been deleted.
C7_Witness ==
    /\ last.op = "create" /\ last.status = 201
    /\ deleted # {}
    /\ \E x \in posts : \A d \in deleted : x.id > d

\* C8: every handler sends exactly one response, with a status among 200,
\* 201, 400, 404 and 500, or is suspended with none sent yet; no error
\* leaves a handler; and a storage call that fails with anything but
\* not-found on the post delete or the unique violation on the like is
\* answered 500 with the tables as they were.
Answered(a) ==
    a.sent = 1 /\ ~a.escaped /\ a.status \in {200, 201, 400, 404, 500}
AnsweredOrSuspended(w) ==
    \/ w.waiting = {} /\ Answered(w.reply)
    \/ w.waiting # {} /\ w.reply.sent = 0 /\ ~w.reply.escaped

C8_OneResponseNoEscape ==
    \A f \in MayFail :
       /\ \A u \in CheckUsers :
             \A a \in ListReplies(posts, likes, u, f) :
                Answered(a) /\ (f # NoError => a.status = 500)
       /\ \A b \in CheckBodies :
             LET r == CreateResult(posts, seq, now, b, f)
             IN  /\ Answered(r.reply)
                 /\ f # NoError /\ ~BlankContent(b.content) =>
                       r.reply.status = 500 /\ r.rows = {}
       /\ \A p \in CheckParams :
             LET r == DeleteResult(posts, likes, onDelete, p, f)
                 d == PostDelete(posts, likes, PostIdOf(p), onDelete)
             IN  /\ Answered(r.reply)
                 /\ ~ParseInt(p).nan
                       /\ (f # NoError \/ d.err \notin {NoError, "P2025"}) =>
                       /\ r.reply.status = 500
                       /\ r.posts = posts /\ r.likes = likes
       /\ \A p \in CheckParams, u \in CheckUsers :
             LET w == LikeWrite(posts, likes, p, u, f)
                 c == LikeCreate(posts, likes, PostIdOf(p), u.v)
             IN  /\ AnsweredOrSuspended(w)
                 /\ ~ParseInt(p).nan /\ Truthy(u)
                       /\ (f # NoError \/ c.err \notin {NoError, "P2002"}) =>
                       /\ w.reply.status = 500
                       /\ w.waiting = {} /\ w.likes = likes
       /\ \A p \in CheckParams, u \in CheckUsers :
             LET w == UnlikeWrite(likes, p, u, f)
             IN  /\ AnsweredOrSuspended(w)
                 /\ ~ParseInt(p).nan /\ Truthy(u) /\ f # NoError =>
                       /\ w.reply.status = 500
                       /\ w.waiting = {} /\ w.likes = likes
       /\ \A q \in BagToSet(inflight) :
             LET a == IF q.op = "like" THEN LikeReply(likes, q, f)
                      ELSE UnlikeReply(likes, q, f)
             IN  Answered(a) /\ (f # NoError => a.status = 500)

\* The count of a like failed after its write and was answered 500.
C8_Witness ==
    /\ last.op = "likeCount" /\ last.status = 500 /\ last.caught \in Faults
    /\ likes # EmptyBag

\* C9 as stated: whatever other requests do between a handler's write and
\* its count, the count a like answers with includes the row it inserted,
\* and the count an unlike answers with includes no row of its pair.
C9_CountSeesOwnWrite ==
    \A q \in BagToSet(inflight) :
       /\ q.op = "like" =>
             LikeReply(likes, q, NoError).body.likeCount >= 1
       /\ q.op = "unlike" => ~HasLike(likes, q.postId, q.userId)

\* C9, amended: the count a like or an unlike answers with is the number of
\* Like rows of the post when the count runs. With no write to the pair
\* between the handler's two calls it includes the row the like inserted
\* and no row of the unliked pair; a like's count includes its row for as
\* long as the post has any row.
C9_CountAtCountTime ==
    /\ \A q \in BagToSet(inflight) :
          /\ q.op = "like" =>
                LET a == LikeReply(likes, q, NoError)
                IN  /\ a.body.likeCount = LikeRowsOf(likes, q.postId)
                    /\ RowsOf(likes, q.postId) # {} => a.body.likeCount >= 1
          /\ q.op = "unlike" =>
                LET a == UnlikeReply(likes, q, NoError)
                IN  a.body.likeCount = LikeRowsOf(likes, q.postId)
    /\ \A p \in NumericParams, u \in Users :
          /\ LET w == LikeWrite(posts, likes, p, Str(u), NoError)
             IN  \A q \in w.waiting :
                    LikeReply(w.likes, q, NoError).body.likeCount
                       = LikeRowsOf(likes, PostIdOf(p)) + 1
          /\ LET w == UnlikeWrite(likes, p, Str(u), NoError)
             IN  \A q \in w.waiting :
                    UnlikeReply(w.likes, q, NoError).body.likeCount
                       = LikeRowsOf(likes, PostIdOf(p))
                            - CopiesIn(LikeRow(PostIdOf(p), u), likes)

\* A like is at its count, its post is still there, and an unlike, itself at
\* its count now, has left the post without any Like row.
C9_Witness ==
    /\ last.op = "unlike" /\ last.status = 0
    /\ \E q \in BagToSet(inflight) :
          /\ q.op = "like"
          /\ q.postId \in Ids(posts)
          /\ LikeRowsOf(likes, q.postId) = 0
          /\ \E x \in BagToSet(inflight) :
                x.op = "unlike" /\ x.postId = q.postId

====
